---- MODULE Spec2Model ----
(***************************************************************************)
(* Model of plusminus (src/main.rs): a value-with-uncertainty arithmetic.  *)
(*                                                                         *)
(* An f64 is modelled as an extended rational: a finite signed fraction    *)
(* s * n / d in lowest terms (with a signed zero), an infinity of either   *)
(* sign, or NaN.  Finite arithmetic is exact: the rounding of f64 to 53    *)
(* bits is abstracted, while the IEEE-754 special cases that the code can  *)
(* reach (x/0, 0/0, 0*inf, inf-inf, NaN propagation, NaN /= NaN) are kept. *)
(***************************************************************************)
EXTENDS Integers, Sequences, FiniteSets, TLC

(***************************************************************************)
(* f64                                                                     *)
(***************************************************************************)
RECURSIVE Gcd(_, _)
Gcd(x, y) == IF y = 0 THEN x ELSE Gcd(y, x % y)

NaN == [k |-> "nan", s |-> 1, n |-> 0, d |-> 1]

Inf(s) == [k |-> "inf", s |-> s, n |-> 0, d |-> 1]

\* The finite number s * n / d (s in {1, -1}, n >= 0, d > 0), in lowest terms.
Fin(s, n, d) ==
    LET g == Gcd(n, d) IN [k |-> "fin", s |-> s, n |-> n \div g, d |-> d \div g]

\* The literal i (an integer), and the literal n / d.
Lit(i) == IF i < 0 THEN Fin(-1, -i, 1) ELSE Fin(1, i, 1)

Frac(i, d) == IF i < 0 THEN Fin(-1, -i, d) ELSE Fin(1, i, d)

IsNaN(x) == x.k = "nan"

IsZero(x) == x.k = "fin" /\ x.n = 0

\* f64::abs
FAbs(x) == IF IsNaN(x) THEN NaN ELSE [x EXCEPT !.s = 1]

\* unary minus
FNeg(x) == IF IsNaN(x) THEN NaN ELSE [x EXCEPT !.s = -x.s]

\* f64 +
FAdd(x, y) ==
    IF IsNaN(x) \/ IsNaN(y) THEN NaN
    ELSE IF x.k = "inf" /\ y.k = "inf" THEN (IF x.s = y.s THEN x ELSE NaN)
    ELSE IF x.k = "inf" THEN x
    ELSE IF y.k = "inf" THEN y
    ELSE LET sn == x.s * x.n * y.d + y.s * y.n * x.d
             dd == x.d * y.d
         IN  IF sn = 0 THEN Fin(IF x.s = -1 /\ y.s = -1 THEN -1 ELSE 1, 0, 1)
             ELSE IF sn < 0 THEN Fin(-1, -sn, dd)
             ELSE Fin(1, sn, dd)

\* f64 -
FSub(x, y) == FAdd(x, FNeg(y))

\* f64 *
FMul(x, y) ==
    IF IsNaN(x) \/ IsNaN(y) THEN NaN
    ELSE IF (x.k = "inf" /\ IsZero(y)) \/ (IsZero(x) /\ y.k = "inf") THEN NaN
    ELSE IF x.k = "inf" \/ y.k = "inf" THEN Inf(x.s * y.s)
    ELSE Fin(x.s * y.s, x.n * y.n, x.d * y.d)

\* f64 /
FDiv(x, y) ==
    IF IsNaN(x) \/ IsNaN(y) THEN NaN
    ELSE IF x.k = "inf" /\ y.k = "inf" THEN NaN
    ELSE IF x.k = "inf" THEN Inf(x.s * y.s)
    ELSE IF y.k = "inf" THEN Fin(x.s * y.s, 0, 1)
    ELSE IF IsZero(y) THEN (IF IsZero(x) THEN NaN ELSE Inf(x.s * y.s))
    ELSE Fin(x.s * y.s, x.n * y.d, x.d * y.n)

\* f64 == (NaN is unequal to everything, 0.0 == -0.0)
FEq(x, y) ==
    /\ ~IsNaN(x)
    /\ ~IsNaN(y)
    /\ \/ IsZero(x) /\ IsZero(y)
       \/ x = y

\* 0.0 <= x (false of NaN, true of -0.0)
FNonNeg(x) == ~IsNaN(x) /\ (x.s = 1 \/ IsZero(x))

Hundred == Lit(100)

Zero == Lit(0)

(***************************************************************************)
(* Uncertainty                                                             *)
(***************************************************************************)
DEFAULT_PRECISION == 5

Min(p, q) == IF p <= q THEN p ELSE q

Max(p, q) == IF p >= q THEN p ELSE q

Unc(low, high, precision, variant) ==
    [low |-> low, high |-> high, precision |-> precision, variant |-> variant]

null == Unc(Zero, Zero, DEFAULT_PRECISION, "Absolute")

symmetric_abs(value) == [null EXCEPT !.low = FAbs(value), !.high = FAbs(value),
                                     !.variant = "Absolute"]

symmetric_rel(value) == [null EXCEPT !.low = FAbs(value), !.high = FAbs(value),
                                     !.variant = "Relative"]

non_symmetric(low, high) == [null EXCEPT !.low = low, !.high = high]

with_precision(self, precision) == [self EXCEPT !.precision = precision]

\* to_absolute without the conversion: a Relative uncertainty stays Relative.
to_absolute_unconverted(self, value) == self

to_absolute(self, value) ==
    IF self.variant = "Relative"
    THEN [self EXCEPT !.low = FMul(FDiv(self.low, Hundred), FAbs(value)),
                      !.high = FMul(FDiv(self.high, Hundred), FAbs(value)),
                      !.variant = "Absolute"]
    ELSE self

to_relative(self, value) ==
    IF self.variant = "Absolute"
    THEN [self EXCEPT
            !.low = FMul(FDiv(FAbs(FSub(self.low, FAbs(value))), FAbs(value)), Hundred),
            !.high = FMul(FDiv(FAbs(FSub(self.high, FAbs(value))), FAbs(value)), Hundred),
            !.variant = "Relative"]
    ELSE self

\* The outcome of a combinator that may panic: a value, or the panic.
Ok(v) == [panic |-> FALSE, val |-> v]

Panic == [panic |-> TRUE, val |-> null]

\* Uncertainty + with the magnitudes subtracted instead of added.
UncAdd_subtracting(self, rhs) ==
    IF self.variant = "Absolute" /\ rhs.variant = "Absolute"
    THEN [panic |-> FALSE,
          val |-> Unc(FSub(self.low, rhs.low), FSub(self.high, rhs.high),
                      Min(self.precision, rhs.precision), "Absolute")]
    ELSE [panic |-> TRUE, val |-> null]

\* Uncertainty + without the variant check: any two variants are summed.
UncAdd_unchecked(self, rhs) ==
    [panic |-> FALSE,
     val |-> Unc(FAdd(self.low, rhs.low), FAdd(self.high, rhs.high),
                 Min(self.precision, rhs.precision), self.variant)]

\* impl Add for Uncertainty
UncAdd(self, rhs) ==
    IF self.variant = "Absolute" /\ rhs.variant = "Absolute"
    THEN Ok(Unc(FAdd(self.low, rhs.low), FAdd(self.high, rhs.high),
                Min(self.precision, rhs.precision), "Absolute"))
    ELSE Panic

\* impl Mul for Uncertainty
UncMul(self, rhs) ==
    IF self.variant = "Relative" /\ rhs.variant = "Relative"
    THEN Ok(Unc(FAdd(self.low, rhs.low), FAdd(self.high, rhs.high),
                Max(self.precision, rhs.precision), "Relative"))
    ELSE Panic

(***************************************************************************)
(* Measure                                                                 *)
(***************************************************************************)
Measure(value, uncertainty) == [value |-> value, uncertainty |-> uncertainty]

scalar(value) == Measure(value, null)

with_rel_err(self, err) == Measure(self.value, symmetric_rel(err))

\* with_abs_err that carries the precision of self over to the new uncertainty.
with_abs_err_keeping(self, err) ==
    Measure(self.value, with_precision(symmetric_abs(err), self.uncertainty.precision))

with_abs_err(self, err) == Measure(self.value, symmetric_abs(err))

m_with_precision(self, precision) ==
    Measure(self.value, with_precision(self.uncertainty, precision))

\* The limits with the lower one first.
resolve_low_high_limits(self) ==
    LET unc == to_absolute(self.uncertainty, self.value)
    IN  <<FSub(self.value, unc.low), FAdd(self.value, unc.high)>>

resolve_high_low_limits(self) ==
    LET unc == to_absolute(self.uncertainty, self.value)
    IN  <<FAdd(self.value, unc.high), FSub(self.value, unc.low)>>

\* impl Display for Measure: the two interval limits in the order they are
\* handed to the formatter, after the value and the uncertainty.
fmt_limits(self) ==
    LET hl == resolve_high_low_limits(self)
        high == hl[1]
        low == hl[2]
    IN  <<low, high>>

\* Wrap the uncertainty a combinator returned, or its panic, into a Measure.
Wrap(value, r) == [panic |-> r.panic, val |-> Measure(value, r.val)]

\* impl Add for Measure
MAdd(self, rhs) ==
    Wrap(FAdd(self.value, rhs.value),
         UncAdd(to_absolute(self.uncertainty, self.value),
                to_absolute(rhs.uncertainty, rhs.value)))

\* impl Sub for Measure
MSub(self, rhs) ==
    Wrap(FSub(self.value, rhs.value),
         UncAdd(to_absolute(self.uncertainty, self.value),
                to_absolute(rhs.uncertainty, rhs.value)))

\* impl Div for Measure
MDiv(self, rhs) ==
    Wrap(FDiv(self.value, rhs.value),
         UncMul(to_relative(self.uncertainty, self.value),
                to_relative(rhs.uncertainty, rhs.value)))

\* impl Mul for Measure
MMul(self, rhs) ==
    Wrap(FMul(self.value, rhs.value),
         UncMul(to_relative(self.uncertainty, self.value),
                to_relative(rhs.uncertainty, rhs.value)))

(***************************************************************************)
(* Bounds and inputs                                                       *)
(***************************************************************************)
\* The number of operator applications (+, -, *, /) in one run of Spec.
MaxOps == 1

\* The number of raw conversions and combinations in one run of SpecU.
MaxConv == 2

\* The f64 values measures are built from.
Vals == {Lit(0), Lit(10), Lit(-4)}

\* The error inputs of the constructors (negative: they store the absolute value).
Errs == {Lit(-2)}

\* The digit counts handed to with_precision.
Precs == {2}

\* The measures a chain of constructor calls builds from these inputs:
\* Measure::scalar(v), then optionally with_abs_err(e) or with_rel_err(e),
\* then optionally with_precision(p).
Scalars == {scalar(v) : v \in Vals}

WithErrs ==
    Scalars \cup {with_abs_err(s, e) : s \in Scalars, e \in Errs}
            \cup {with_rel_err(s, e) : s \in Scalars, e \in Errs}

Operands == WithErrs \cup {m_with_precision(w, p) : w \in WithErrs, p \in Precs}

(***************************************************************************)
(* State                                                                   *)
(***************************************************************************)
VARIABLES
    m,          \* the Measure under construction / the latest result
    bound,      \* m holds a Measure (nothing has been built at the start)
    last,       \* the last call: its name, arguments and result
    nops,       \* operator applications so far
    panicked,   \* the program has panicked (it is aborted)
    u,          \* a raw Uncertainty (SpecU)
    ulast,      \* the last two raw calls: names, arguments, inputs (SpecU)
    nconv       \* raw conversions and combinations so far (SpecU)

vars == <<m, bound, last, nops, panicked, u, ulast, nconv>>

uvars == <<u, ulast, nconv>>

mvars == <<m, bound, last, nops>>

\* What m is filled with while it holds nothing.
Unbound == scalar(Zero)

NoPair == <<Zero, Zero>>

Call(op, x, y, e, p, out, pair) ==
    [op |-> op, x |-> x, y |-> y, e |-> e, p |-> p, out |-> out, pair |-> pair]

UCall(op, x, y, v, op0, x0, v0) ==
    [op |-> op, x |-> x, y |-> y, v |-> v, op0 |-> op0, x0 |-> x0, v0 |-> v0]

Init ==
    /\ m = Unbound
    /\ bound = FALSE
    /\ last = Call("none", Unbound, Unbound, Zero, 0, Unbound, NoPair)
    /\ nops = 0
    /\ panicked = FALSE
    /\ u = null
    /\ ulast = UCall("none", null, null, Zero, "none", null, Zero)
    /\ nconv = 0

(***************************************************************************)
(* The Measure API                                                         *)
(***************************************************************************)
\* let m = Measure::scalar(v)
Scalar(v) ==
    /\ ~panicked
    /\ m' = scalar(v)
    /\ bound' = TRUE
    /\ last' = Call("scalar", Unbound, Unbound, v, 0, m', NoPair)
    /\ UNCHANGED <<nops, panicked, uvars>>

\* let m = m.with_rel_err(e)
WithRelErr(e) ==
    /\ ~panicked
    /\ bound
    /\ m' = with_rel_err(m, e)
    /\ last' = Call("with_rel_err", m, Unbound, e, 0, m', NoPair)
    /\ UNCHANGED <<bound, nops, panicked, uvars>>

\* let m = m.with_abs_err(e)
WithAbsErr(e) ==
    /\ ~panicked
    /\ bound
    /\ m' = with_abs_err(m, e)
    /\ last' = Call("with_abs_err", m, Unbound, e, 0, m', NoPair)
    /\ UNCHANGED <<bound, nops, panicked, uvars>>

\* let m = m.with_precision(p)
WithPrecision(p) ==
    /\ ~panicked
    /\ bound
    /\ m' = m_with_precision(m, p)
    /\ last' = Call("with_precision", m, Unbound, Zero, p, m', NoPair)
    /\ UNCHANGED <<bound, nops, panicked, uvars>>

\* m.resolve_high_low_limits()
Limits ==
    /\ ~panicked
    /\ bound
    /\ last' = Call("limits", m, Unbound, Zero, 0, m, resolve_high_low_limits(m))
    /\ UNCHANGED <<m, bound, nops, panicked, uvars>>

\* format!("{}", m)
Fmt ==
    /\ ~panicked
    /\ bound
    /\ last' = Call("fmt", m, Unbound, Zero, 0, m, fmt_limits(m))
    /\ UNCHANGED <<m, bound, nops, panicked, uvars>>

\* let m = lhs <op> rhs: both operands are moved into the operator, its result
\* is the new m, and a panic inside it aborts the program.
Operator(op, lhs, rhs, res) ==
    /\ ~panicked
    /\ bound
    /\ nops < MaxOps
    /\ nops' = nops + 1
    /\ panicked' = res.panic
    /\ bound' = ~res.panic
    /\ m' = IF res.panic THEN Unbound ELSE res.val
    /\ last' = Call(op, lhs, rhs, Zero, 0, m', NoPair)
    /\ UNCHANGED uvars

\* m + x and x + m, for a freshly constructed x
Add(x, mIsLhs) ==
    LET lhs == IF mIsLhs THEN m ELSE x
        rhs == IF mIsLhs THEN x ELSE m
    IN  Operator("add", lhs, rhs, MAdd(lhs, rhs))

Sub(x, mIsLhs) ==
    LET lhs == IF mIsLhs THEN m ELSE x
        rhs == IF mIsLhs THEN x ELSE m
    IN  Operator("sub", lhs, rhs, MSub(lhs, rhs))

Mul(x, mIsLhs) ==
    LET lhs == IF mIsLhs THEN m ELSE x
        rhs == IF mIsLhs THEN x ELSE m
    IN  Operator("mul", lhs, rhs, MMul(lhs, rhs))

Div(x, mIsLhs) ==
    LET lhs == IF mIsLhs THEN m ELSE x
        rhs == IF mIsLhs THEN x ELSE m
    IN  Operator("div", lhs, rhs, MDiv(lhs, rhs))

Next ==
    \/ \E v \in Vals : Scalar(v)
    \/ \E e \in Errs : WithRelErr(e)
    \/ \E e \in Errs : WithAbsErr(e)
    \/ \E p \in Precs : WithPrecision(p)
    \/ Limits
    \/ Fmt
    \/ \E x \in Operands, mIsLhs \in BOOLEAN : Add(x, mIsLhs)
    \/ \E x \in Operands, mIsLhs \in BOOLEAN : Sub(x, mIsLhs)
    \/ \E x \in Operands, mIsLhs \in BOOLEAN : Mul(x, mIsLhs)
    \/ \E x \in Operands, mIsLhs \in BOOLEAN : Div(x, mIsLhs)

Spec == Init /\ [][Next]_vars

(***************************************************************************)
(* The raw Uncertainty API (used inside the crate, below Measure)          *)
(***************************************************************************)
\* The bounds handed to non_symmetric.
NsVals == {Lit(1), Lit(3)}

\* The uncertainties a chain of constructor calls builds.
RawFresh ==
    {null} \cup {symmetric_abs(e) : e \in Errs} \cup {symmetric_rel(e) : e \in Errs}

RawOperands == RawFresh \cup {with_precision(w, p) : w \in RawFresh, p \in Precs}

\* A call that builds or rebinds u without converting or combining.
UStep(op, out, v) ==
    /\ ~panicked
    /\ u' = out
    /\ ulast' = UCall(op, u, null, v, ulast.op, ulast.x, ulast.v)
    /\ UNCHANGED <<nconv, panicked, mvars>>

\* let u = Uncertainty::null()   (also Uncertainty::default())
UNull == UStep("null", null, Zero)

\* let u = Uncertainty::symmetric_abs(e)
USymmetricAbs(e) == UStep("symmetric_abs", symmetric_abs(e), e)

\* let u = Uncertainty::symmetric_rel(e)
USymmetricRel(e) == UStep("symmetric_rel", symmetric_rel(e), e)

\* let u = Uncertainty::non_symmetric(lo, hi)
UNonSymmetric(lo, hi) == UStep("non_symmetric", non_symmetric(lo, hi), lo)

\* let u = u.with_precision(p)
UWithPrecision(p) == UStep("with_precision", with_precision(u, p), Lit(p))

\* A conversion of u with the associated value v.
UConv(op, out, v) ==
    /\ ~panicked
    /\ nconv < MaxConv
    /\ nconv' = nconv + 1
    /\ u' = out
    /\ ulast' = UCall(op, u, null, v, ulast.op, ulast.x, ulast.v)
    /\ UNCHANGED <<panicked, mvars>>

\* let u = u.to_absolute(v)
UToAbsolute(v) == UConv("to_absolute", to_absolute(u, v), v)

\* let u = u.to_relative(v)
UToRelative(v) == UConv("to_relative", to_relative(u, v), v)

\* let u = lhs <op> rhs on two raw uncertainties; a panic aborts the program.
UCombine(op, lhs, rhs, res) ==
    /\ ~panicked
    /\ nconv < MaxConv
    /\ nconv' = nconv + 1
    /\ panicked' = res.panic
    /\ u' = res.val
    /\ ulast' = UCall(op, lhs, rhs, Zero, ulast.op, ulast.x, ulast.v)
    /\ UNCHANGED mvars

\* u + x and x + u
UAdd(x, uIsLhs) ==
    LET lhs == IF uIsLhs THEN u ELSE x
        rhs == IF uIsLhs THEN x ELSE u
    IN  UCombine("add", lhs, rhs, UncAdd(lhs, rhs))

\* u * x and x * u
UMul(x, uIsLhs) ==
    LET lhs == IF uIsLhs THEN u ELSE x
        rhs == IF uIsLhs THEN x ELSE u
    IN  UCombine("mul", lhs, rhs, UncMul(lhs, rhs))

NextU ==
    \/ UNull
    \/ \E e \in Errs : USymmetricAbs(e)
    \/ \E e \in Errs : USymmetricRel(e)
    \/ \E lo \in NsVals, hi \in NsVals : UNonSymmetric(lo, hi)
    \/ \E p \in Precs : UWithPrecision(p)
    \/ \E v \in Vals : UToAbsolute(v)
    \/ \E v \in Vals : UToRelative(v)
    \/ \E x \in RawOperands, uIsLhs \in BOOLEAN : UAdd(x, uIsLhs)
    \/ \E x \in RawOperands, uIsLhs \in BOOLEAN : UMul(x, uIsLhs)

SpecU == Init /\ [][NextU]_vars

(***************************************************************************)
(* Properties                                                              *)
(***************************************************************************)
Operators == {"add", "sub", "mul", "div"}

\* abs(x): the magnitude of x's uncertainty in the units of x's value.
AbsLow(x) ==
    IF x.uncertainty.variant = "Relative"
    THEN FMul(FDiv(x.uncertainty.low, Hundred), FAbs(x.value))
    ELSE x.uncertainty.low

AbsHigh(x) ==
    IF x.uncertainty.variant = "Relative"
    THEN FMul(FDiv(x.uncertainty.high, Hundred), FAbs(x.value))
    ELSE x.uncertainty.high

\* rel(x): the magnitude of x's uncertainty in percent of x's value.
RelLow(x) ==
    IF x.uncertainty.variant = "Relative"
    THEN x.uncertainty.low
    ELSE FMul(FDiv(x.uncertainty.low, FAbs(x.value)), Hundred)

RelHigh(x) ==
    IF x.uncertainty.variant = "Relative"
    THEN x.uncertainty.high
    ELSE FMul(FDiv(x.uncertainty.high, FAbs(x.value)), Hundred)

\* C1: a + b and a - b return a Measure whose value is the sum / difference of
\* the operands' values and whose uncertainty is Absolute with magnitude
\* abs(a) + abs(b), each operand converted with its own value; the magnitudes
\* add under subtraction too.
C1_AddSubPropagation ==
    last.op \in {"add", "sub"} =>
        /\ ~panicked
        /\ m = last.out
        /\ last.out.value = IF last.op = "add"
                            THEN FAdd(last.x.value, last.y.value)
                            ELSE FSub(last.x.value, last.y.value)
        /\ last.out.uncertainty.variant = "Absolute"
        /\ last.out.uncertainty.low = FAdd(AbsLow(last.x), AbsLow(last.y))
        /\ last.out.uncertainty.high = FAdd(AbsHigh(last.x), AbsHigh(last.y))

\* (-4 +- 2%) - (10 +- 2) = -14 +- 2.08
C1_Witness ==
    /\ last.op = "sub"
    /\ last.x = with_rel_err(scalar(Lit(-4)), Lit(2))
    /\ last.y = with_abs_err(scalar(Lit(10)), Lit(2))
    /\ m.value = Lit(-14)
    /\ m.uncertainty.variant = "Absolute"
    /\ m.uncertainty.low = Frac(208, 100)
    /\ m.uncertainty.high = Frac(208, 100)

\* C2: for operands with nonzero values, a * b and a / b return a Measure whose
\* value is the product / quotient and whose uncertainty is Relative with
\* magnitude rel(a) + rel(b), where rel of an Absolute magnitude mag is
\* mag / |value| * 100 (0 for a certain operand).
C2_MulDivPropagation ==
    (/\ last.op \in {"mul", "div"}
     /\ ~IsZero(last.x.value)
     /\ ~IsZero(last.y.value)) =>
        /\ ~panicked
        /\ last.out.value = IF last.op = "mul"
                            THEN FMul(last.x.value, last.y.value)
                            ELSE FDiv(last.x.value, last.y.value)
        /\ last.out.uncertainty.variant = "Relative"
        /\ last.out.uncertainty.low = FAdd(RelLow(last.x), RelLow(last.y))
        /\ last.out.uncertainty.high = FAdd(RelHigh(last.x), RelHigh(last.y))

\* C3: the precision of the result of each of +, -, *, / is the smaller of the
\* two operands' precisions.
C3_PrecisionIsMin ==
    (last.op \in Operators /\ ~panicked) =>
        last.out.uncertainty.precision =
            Min(last.x.uncertainty.precision, last.y.uncertainty.precision)

\* C4: with the same nonzero associated value v, to_relative(to_absolute(u, v), v)
\* is u for a Relative u, and to_absolute(to_relative(u, v), v) is u for an
\* Absolute u (u of non-negative magnitude).
C4_RoundTrip ==
    (/\ ulast.op0 \in {"to_absolute", "to_relative"}
     /\ ulast.op \in {"to_absolute", "to_relative"}
     /\ ulast.op # ulast.op0
     /\ ulast.x0.variant = (IF ulast.op0 = "to_absolute" THEN "Relative" ELSE "Absolute")
     /\ ulast.v = ulast.v0
     /\ ~IsZero(ulast.v)
     /\ FNonNeg(ulast.x0.low)
     /\ FNonNeg(ulast.x0.high)) =>
        u = ulast.x0

\* C5: the operators +, -, *, / on Measure never panic on a variant mismatch:
\* each returns a Measure, whatever the mix of the operands' uncertainty kinds.
C5_OperatorsNeverPanic ==
    /\ ~panicked
    /\ last.op \in Operators => bound /\ m = last.out

\* (relative) + (absolute) and (absolute) * (relative) returned
C5_Witness ==
    /\ last.op \in {"add", "mul"}
    /\ last.x.uncertainty.variant # last.y.uncertainty.variant
    /\ last.x.uncertainty.variant = (IF last.op = "add" THEN "Relative" ELSE "Absolute")
    /\ bound
    /\ ~panicked

\* C6: combining two raw uncertainties of differing variants, with Uncertainty +
\* or Uncertainty *, in either order, panics.
C6_MixedVariantsPanic ==
    (ulast.op \in {"add", "mul"} /\ ulast.x.variant # ulast.y.variant) => panicked

\* Relative + Absolute panicked
C6_Witness ==
    /\ ulast.op = "add"
    /\ ulast.x.variant = "Relative"
    /\ ulast.y.variant = "Absolute"
    /\ panicked

\* C7: a * b and a / b abort when an operand with Absolute (or certain)
\* uncertainty has the value 0, since its conversion to Relative divides by 0.
C7_ZeroValueIsFatal ==
    (/\ last.op \in {"mul", "div"}
     /\ \/ last.x.uncertainty.variant = "Absolute" /\ IsZero(last.x.value)
        \/ last.y.uncertainty.variant = "Absolute" /\ IsZero(last.y.value)) =>
        panicked

\* C8 (as claimed): the interval operation returns (value - low, value + high),
\* the lower limit first, low / high being the magnitudes converted to Absolute
\* with the Measure's own value.
C8_LowerLimitFirst ==
    last.op = "limits" =>
        last.pair = <<FSub(last.x.value, AbsLow(last.x)),
                      FAdd(last.x.value, AbsHigh(last.x))>>

\* C8 (amended): the interval operation returns (value + high, value - low),
\* the upper limit first, low / high being the magnitudes converted to Absolute
\* with the Measure's own value.
C8_UpperLimitFirst ==
    last.op = "limits" =>
        last.pair = <<FAdd(last.x.value, AbsHigh(last.x)),
                      FSub(last.x.value, AbsLow(last.x))>>

\* 10 +- 2 yields (12, 8)
C8_Witness ==
    /\ last.op = "limits"
    /\ last.x.value = Lit(10)
    /\ last.x.uncertainty.variant = "Absolute"
    /\ last.x.uncertainty.low = Lit(2)
    /\ last.pair = <<Lit(12), Lit(8)>>

\* C9: in every Measure the program holds, the uncertainty's low and high
\* magnitudes are non-negative and equal to each other.
C9_SymmetricNonNegative ==
    bound =>
        /\ FNonNeg(m.uncertainty.low)
        /\ FNonNeg(m.uncertainty.high)
        /\ FEq(m.uncertainty.low, m.uncertainty.high)

\* C10: with_precision(p) changes the precision only; with_abs_err(e) and
\* with_rel_err(e) keep the value only and build a new uncertainty of magnitude
\* |e| whose precision is the default, whatever precision was set before.
C10_BuilderFrame ==
    /\ last.op = "with_precision" =>
        /\ m = last.out
        /\ m.value = last.x.value
        /\ m.uncertainty.low = last.x.uncertainty.low
        /\ m.uncertainty.high = last.x.uncertainty.high
        /\ m.uncertainty.variant = last.x.uncertainty.variant
        /\ m.uncertainty.precision = last.p
    /\ last.op \in {"with_abs_err", "with_rel_err"} =>
        /\ m = last.out
        /\ m.value = last.x.value
        /\ m.uncertainty.low = FAbs(last.e)
        /\ m.uncertainty.high = FAbs(last.e)
        /\ m.uncertainty.variant =
               (IF last.op = "with_abs_err" THEN "Absolute" ELSE "Relative")
        /\ m.uncertainty.precision = DEFAULT_PRECISION

\* with_abs_err on a measure whose precision had been set to 2: back to 5
C10_Witness ==
    /\ last.op = "with_abs_err"
    /\ last.x.uncertainty.precision = 2
    /\ last.x.uncertainty.variant = "Relative"
    /\ m.uncertainty.precision = DEFAULT_PRECISION
    /\ m.uncertainty.variant = "Absolute"

====
